---- MODULE Spec2Model ----
(***************************************************************************)
(* A model of the RTS prototype's camera rig (RTSCameraController) and     *)
(* terrain generator (TerrainGenerator, generateTreePositions,             *)
(* improvedPerlinNoise).                                                   *)
(*                                                                         *)
(* Numbers are fixed-point integers:                                       *)
(*   lengths (target, distance, zoom limits, zoomSpeed, camera position)   *)
(*     in 1/LenScale world units;                                          *)
(*   angles (pitch in degrees, yaw in radians, rotationSpeed)              *)
(*     in 1/AngScale of their unit;                                        *)
(*   panSpeed in whole world units per second;                             *)
(*   normalized zoom and noise values as exact fractions <<num, den>>.     *)
(***************************************************************************)
EXTENDS Integers, Sequences, FiniteSets, TLC

VARIABLES
    \* RTSCameraController fields
    target, distance, pitch, yaw, keysPressed, mouseDown, lastMouseX, lastMouseY,
    minZoom, maxZoom, minPitch, maxPitch, panSpeed, zoomSpeed, rotationSpeed,
    \* the THREE.PerspectiveCamera's position and the host's listener table
    camPos, listeners,
    \* the last public call or delivered event, its zoom argument, the call count,
    \* and whether dispose() has been called
    lastOp, lastArg, nops, disposed,
    \* the host's collaborators: the value of the hash fract(sin(t) * 43758.5453) per
    \* argument class, and what Raycaster.intersectObject reports per ray
    noiseTab, rayTab,
    \* TerrainGenerator fields
    config, terrain, trees,
    \* the last TerrainGenerator call, the treePositions and the seed of its placement
    \* pass, the number of placed objects before it, and the call count
    tLastOp, lastPositions, lastSeed, treesBefore, tOps,
    \* one run of generateTreePositions, statement by statement: its arguments, its
    \* loop variables, its result so far and its position in the code
    sGrid, sStep, sSeed, sx, sz, positions, spc,
    \* one evaluation of improvedPerlinNoise: its arguments and its result
    nArgs, nResult, nDone

camVars == <<target, distance, pitch, yaw, keysPressed, mouseDown, lastMouseX,
             lastMouseY, minZoom, maxZoom, minPitch, maxPitch, panSpeed, zoomSpeed,
             rotationSpeed, camPos, listeners, lastOp, lastArg, nops, disposed>>

envVars == <<noiseTab, rayTab>>

terrainVars == <<config, terrain, trees, tLastOp, lastPositions, lastSeed,
                 treesBefore, tOps>>

scanVars == <<sGrid, sStep, sSeed, sx, sz, positions, spc>>

noiseVars == <<nArgs, nResult, nDone>>

vars == <<camVars, envVars, terrainVars, scanVars, noiseVars>>

----------------------------------------------------------------------------
(* Bounds of the exploration *)

\* calls and events explored after construction
MaxOps == 3
\* keys held at the same time
MaxHeld == 2
\* generate() and regenerate() calls explored after construction
MaxCalls == 2
\* argument classes the noise hash tells apart
NoisePeriod == 3
\* ray classes the ray caster tells apart
RayPeriod == 2
\* octave counts explored for improvedPerlinNoise
MaxOctaves == 3
\* the magnitude at which a Number no longer changes when the scan step is added
AbsorbAt == 6

----------------------------------------------------------------------------
(* Fixed-point resolutions *)

LenScale == 1000
AngScale == 100
TrigScale == 1000

----------------------------------------------------------------------------
(* Math helpers *)

Min(a, b) == IF a < b THEN a ELSE b
Max(a, b) == IF a > b THEN a ELSE b

\* Math.max(lo, Math.min(hi, v)): lo wins when lo > hi
Clamp(lo, hi, v) == Max(lo, Min(hi, v))

\* pi in 1/AngScale radians
PiAng == 314

\* Math.sin on [0, pi] (Bhaskara's rational approximation), result in 1/TrigScale
SinHalf(r) == (16 * r * (PiAng - r) * TrigScale)
                  \div (5 * PiAng * PiAng - 4 * r * (PiAng - r))

\* Math.sin / Math.cos of an angle in 1/AngScale radians, result in 1/TrigScale
Sin(a) == LET r == a % (2 * PiAng)
          IN  IF r <= PiAng THEN SinHalf(r) ELSE 0 - SinHalf(r - PiAng)
Cos(a) == Sin(a + PiAng \div 2)

\* THREE.MathUtils.degToRad: 1/AngScale degrees to 1/AngScale radians
DegToRad(deg) == (deg * PiAng) \div (180 * AngScale)

\* Vector3.addScaledVector(v, s) with v in 1/TrigScale and s in 1/LenScale
AddScaledVector(t, v, s) ==
    <<t[1] + (v[1] * s) \div TrigScale,
      t[2] + (v[2] * s) \div TrigScale,
      t[3] + (v[3] * s) \div TrigScale>>

\* forward = (sin yaw, 0, cos yaw), right = (cos yaw, 0, -sin yaw); both are unit
\* vectors, which normalize() leaves as they are
Forward(y) == <<Sin(y), 0, Cos(y)>>
Right(y) == <<Cos(y), 0, 0 - Sin(y)>>

\* String.prototype.toLowerCase on the keys used here
ToLowerCase(k) == IF k = "W" THEN "w" ELSE IF k = "X" THEN "x" ELSE k

----------------------------------------------------------------------------
(* Exact fractions <<num, den>>; den = 0 is a non-finite Number:            *)
(* <<0, 0>> is NaN, <<1, 0>> is Infinity, <<-1, 0>> is -Infinity            *)

Sign(n) == IF n > 0 THEN 1 ELSE IF n < 0 THEN 0 - 1 ELSE 0

Abs(n) == IF n < 0 THEN 0 - n ELSE n

\* the greatest common divisor (Euclid)
GCD[a \in Nat, b \in Nat] == IF b = 0 THEN a ELSE GCD[b, a % b]

\* n / d in lowest terms with a positive denominator (or a non-finite Number)
Reduced[n \in Int, d \in Int] ==
    IF d = 0 THEN <<Sign(n), 0>>
    ELSE <<(Sign(d) * n) \div GCD[Abs(n), Abs(d)], Abs(d) \div GCD[Abs(n), Abs(d)]>>

Frac(n, d) == Reduced[n, d]

IsFinite(a) == a[2] # 0

\* a === b on Numbers: NaN equals nothing
FracEq(a, b) == IF IsFinite(a) /\ IsFinite(b) THEN a[1] * b[2] = b[1] * a[2]
                ELSE a[2] = 0 /\ b[2] = 0 /\ a[1] = b[1] /\ a[1] # 0

\* Math.max(0, Math.min(1, z)) on a finite fraction
ClampUnit(z) == IF z[1] < 0 THEN <<0, 1>> ELSE IF z[1] > z[2] THEN <<1, 1>> ELSE z

\* Number arithmetic on fractions (finite operands; a division by zero gives a
\* non-finite Number). Arith and Less are functions of their operands, so that an
\* operand is evaluated once however often the result is used.
I(n) == <<n, 1>>
Num == Int \X Int
Arith[op \in {"+", "*", "/"}, a \in Num, b \in Num] ==
    CASE op = "+" -> Frac(a[1] * b[2] + b[1] * a[2], a[2] * b[2])
      [] op = "*" -> Frac(a[1] * b[1], a[2] * b[2])
      [] op = "/" -> Frac(a[1] * b[2], a[2] * b[1])
FAdd(a, b) == Arith["+", a, b]
FMul(a, b) == Arith["*", a, b]
FDiv(a, b) == Arith["/", a, b]
FNeg(a) == <<0 - a[1], a[2]>>
FAbs(a) == <<Abs(a[1]), a[2]>>
Less[a \in Num, b \in Num] == a[1] * b[2] < b[1] * a[2]
FLess(a, b) == Less[a, b]
FFloor(a) == a[1] \div a[2]
Half == <<1, 2>>

----------------------------------------------------------------------------
(* Inputs of the camera rig *)

KeyInputs == {"w", "a", "s", "d", "q", "e", "z", "x", "W", "f"}
PixelXs == {0, 40}
PixelYs == {0, 300}
Buttons == {0, 1, 2, 4}
WheelDeltas == {0 - 100, 0, 100}
Targets == {<<0, 0, 0>>, <<5 * LenScale, 0, 0 - 5 * LenScale>>}
ZoomArgs == {<<0 - 1, 2>>, <<0, 1>>, <<1, 4>>, <<1, 2>>, <<1, 1>>, <<3, 2>>}
PitchArgs == {0 - 50 * AngScale, 45 * AngScale, 200 * AngScale}
YawArgs == {0, PiAng \div 2}
ConstraintOptions ==
    { [minZoom |-> 100 * LenScale],
      [maxZoom |-> 10 * LenScale],
      [minZoom |-> 20 * LenScale, maxZoom |-> 40 * LenScale],
      [minPitch |-> 60 * AngScale],
      [maxPitch |-> 30 * AngScale],
      [minPitch |-> 30 * AngScale, maxPitch |-> 60 * AngScale],
      [minZoom |-> 10 * LenScale, maxZoom |-> 200 * LenScale,
       minPitch |-> 15 * AngScale, maxPitch |-> 85 * AngScale] }
SpeedOptions ==
    { [panSpeed |-> 60],
      [zoomSpeed |-> 50 * LenScale],
      [zoomSpeed |-> 0 - 5 * LenScale],
      [rotationSpeed |-> 50],
      [panSpeed |-> 30, zoomSpeed |-> 5 * LenScale, rotationSpeed |-> 1] }

EventTypes == {"keydown", "keyup", "mousedown", "mousemove", "mouseup", "wheel",
               "contextmenu"}

----------------------------------------------------------------------------
(* RTSCameraController *)

\* an updateCameraPosition that places the camera by the offset alone, leaving the
\* target out
UpdateCameraPositionDetached(t, d, p, y) ==
    LET pitchRad == DegToRad(p)
        yawRad == y
    IN  <<(((d * Sin(yawRad)) \div TrigScale) * Cos(pitchRad)) \div TrigScale,
          (d * Sin(pitchRad)) \div TrigScale,
          (((d * Cos(yawRad)) \div TrigScale) * Cos(pitchRad)) \div TrigScale>>

\* updateCameraPosition: the position camera.position.set receives
UpdateCameraPosition(t, d, p, y) ==
    LET pitchRad == DegToRad(p)
        yawRad == y
    IN  <<t[1] + (((d * Sin(yawRad)) \div TrigScale) * Cos(pitchRad)) \div TrigScale,
          t[2] + (d * Sin(pitchRad)) \div TrigScale,
          t[3] + (((d * Cos(yawRad)) \div TrigScale) * Cos(pitchRad)) \div TrigScale>>

\* panByPixels: the target after a pan by (deltaX, deltaY) pixels
PanByPixels(t, d, y, ps, deltaX, deltaY) ==
    LET panAmount == (d * ps) \div 100
        t1 == AddScaledVector(t, Right(y), ((0 - deltaX) * panAmount) \div 100)
    IN  AddScaledVector(t1, Forward(y), ((0 - deltaY) * panAmount) \div 100)

\* the zoom keys of handleKeyboardInput: Z clamps from below only, X from above only
ZoomKeys(keys, d, zs, lo, hi) ==
    LET d1 == IF "z" \in keys THEN Max(lo, d - zs) ELSE d
    IN  IF "x" \in keys THEN Min(hi, d1 + zs) ELSE d1

\* handleKeyboardInput: target, yaw and distance after one poll of the held keys
HandleKeyboardInput(keys, t, y, d, ps, zs, rs, lo, hi) ==
    LET moveAmount == ps * 16
        forward == Forward(y)
        right == Right(y)
        t1 == IF "w" \in keys THEN AddScaledVector(t, forward, moveAmount) ELSE t
        t2 == IF "s" \in keys THEN AddScaledVector(t1, forward, 0 - moveAmount) ELSE t1
        t3 == IF "a" \in keys THEN AddScaledVector(t2, right, 0 - moveAmount) ELSE t2
        t4 == IF "d" \in keys THEN AddScaledVector(t3, right, moveAmount) ELSE t3
        y1 == IF "q" \in keys THEN y - rs * 2 ELSE y
        y2 == IF "e" \in keys THEN y1 + rs * 2 ELSE y1
    IN  [target |-> t4, yaw |-> y2, distance |-> ZoomKeys(keys, d, zs, lo, hi)]

\* a setZoom that maps the normalized zoom to the distance without inverting it
SetZoomDistanceUninverted(z, lo, hi) ==
    LET normalizedZoom == ClampUnit(z)
    IN  lo + ((hi - lo) * normalizedZoom[1]) \div normalizedZoom[2]

\* setZoom: the distance a normalized zoom maps to
SetZoomDistance(z, lo, hi) ==
    LET normalizedZoom == ClampUnit(z)
    IN  lo + ((hi - lo) * (normalizedZoom[2] - normalizedZoom[1])) \div normalizedZoom[2]

\* getZoom: 1 - (distance - minZoom) / (maxZoom - minZoom)
GetZoomOf(d, lo, hi) == Frac((hi - lo) - (d - lo), hi - lo)
GetZoom == GetZoomOf(distance, minZoom, maxZoom)

\* an optional field of an options bundle: the given value, else the prior one
Opt(options, f, prior) == IF f \in DOMAIN options THEN options[f] ELSE prior

\* setupEventListeners: one closure per event type, created at construction
SetupEventListeners == {<<e, "setup">> : e \in EventTypes}

\* a dispose() that hands removeEventListener the closures registered at setup
DisposeClosuresRegistered == {<<e, "setup">> : e \in EventTypes \ {"contextmenu"}}

\* the closures dispose() creates and hands to removeEventListener
DisposeClosures == {<<e, "dispose">> : e \in EventTypes \ {"contextmenu"}}

\* the host delivers an event to a handler that is still registered
Delivered(e) == \E l \in listeners : l[1] = e

\* one call or event, counted
Step(op, arg) == /\ nops < MaxOps
                 /\ nops' = nops + 1
                 /\ lastOp' = op
                 /\ lastArg' = arg
                 /\ disposed' = (disposed \/ op = "dispose")
                 /\ UNCHANGED <<envVars, terrainVars, scanVars, noiseVars>>

NoArg == <<0, 1>>

OnKeyDown(key) ==
    /\ Delivered("keydown")
    /\ Cardinality(keysPressed \cup {ToLowerCase(key)}) <= MaxHeld
    /\ Step("keydown", NoArg)
    /\ keysPressed' = keysPressed \cup {ToLowerCase(key)}
    /\ UNCHANGED <<target, distance, pitch, yaw, mouseDown, lastMouseX, lastMouseY,
                   minZoom, maxZoom, minPitch, maxPitch, panSpeed, zoomSpeed,
                   rotationSpeed, camPos, listeners>>

OnKeyUp(key) ==
    /\ Delivered("keyup")
    /\ Step("keyup", NoArg)
    /\ keysPressed' = keysPressed \ {ToLowerCase(key)}
    /\ UNCHANGED <<target, distance, pitch, yaw, mouseDown, lastMouseX, lastMouseY,
                   minZoom, maxZoom, minPitch, maxPitch, panSpeed, zoomSpeed,
                   rotationSpeed, camPos, listeners>>

OnMouseDown(clientX, clientY) ==
    /\ Delivered("mousedown")
    /\ Step("mousedown", NoArg)
    /\ mouseDown' = TRUE
    /\ lastMouseX' = clientX
    /\ lastMouseY' = clientY
    /\ UNCHANGED <<target, distance, pitch, yaw, keysPressed,
                   minZoom, maxZoom, minPitch, maxPitch, panSpeed, zoomSpeed,
                   rotationSpeed, camPos, listeners>>

OnMouseMove(clientX, clientY, buttons, shiftKey) ==
    LET deltaX == clientX - lastMouseX
        deltaY == clientY - lastMouseY
        rotate == mouseDown /\ buttons = 2
        pan == mouseDown /\ buttons # 2 /\ (buttons = 4 \/ (buttons = 1 /\ shiftKey))
    IN  /\ Delivered("mousemove")
        /\ Step("mousemove", NoArg)
        /\ yaw' = IF rotate THEN yaw - deltaX * rotationSpeed ELSE yaw
        /\ pitch' = IF rotate
                    THEN Clamp(minPitch, maxPitch, pitch + deltaY * rotationSpeed)
                    ELSE pitch
        /\ target' = IF pan
                     THEN PanByPixels(target, distance, yaw, panSpeed, deltaX, deltaY)
                     ELSE target
        /\ lastMouseX' = clientX
        /\ lastMouseY' = clientY
        /\ UNCHANGED <<distance, keysPressed, mouseDown,
                       minZoom, maxZoom, minPitch, maxPitch, panSpeed, zoomSpeed,
                       rotationSpeed, camPos, listeners>>

OnMouseUp ==
    /\ Delivered("mouseup")
    /\ Step("mouseup", NoArg)
    /\ mouseDown' = FALSE
    /\ UNCHANGED <<target, distance, pitch, yaw, keysPressed, lastMouseX, lastMouseY,
                   minZoom, maxZoom, minPitch, maxPitch, panSpeed, zoomSpeed,
                   rotationSpeed, camPos, listeners>>

\* a wheel handler that also recomputes the camera position
OnMouseWheelRecomputing(deltaY) ==
    LET scrollDelta == IF deltaY > 0 THEN 1 ELSE 0 - 1
        d == Clamp(minZoom, maxZoom, distance + scrollDelta * zoomSpeed)
    IN  /\ Delivered("wheel")
        /\ Step("wheel", NoArg)
        /\ distance' = d
        /\ camPos' = UpdateCameraPosition(target, d, pitch, yaw)
        /\ UNCHANGED <<target, pitch, yaw, keysPressed, mouseDown, lastMouseX,
                       lastMouseY, minZoom, maxZoom, minPitch, maxPitch, panSpeed,
                       zoomSpeed, rotationSpeed, listeners>>

OnMouseWheel(deltaY) ==
    LET scrollDelta == IF deltaY > 0 THEN 1 ELSE 0 - 1
    IN  /\ Delivered("wheel")
        /\ Step("wheel", NoArg)
        /\ distance' = Clamp(minZoom, maxZoom, distance + scrollDelta * zoomSpeed)
        /\ UNCHANGED <<target, pitch, yaw, keysPressed, mouseDown, lastMouseX,
                       lastMouseY, minZoom, maxZoom, minPitch, maxPitch, panSpeed,
                       zoomSpeed, rotationSpeed, camPos, listeners>>

Update ==
    LET k == HandleKeyboardInput(keysPressed, target, yaw, distance, panSpeed,
                                 zoomSpeed, rotationSpeed, minZoom, maxZoom)
    IN  /\ Step("update", NoArg)
        /\ target' = k.target
        /\ yaw' = k.yaw
        /\ distance' = k.distance
        /\ camPos' = UpdateCameraPosition(k.target, k.distance, pitch, k.yaw)
        /\ UNCHANGED <<pitch, keysPressed, mouseDown, lastMouseX, lastMouseY,
                       minZoom, maxZoom, minPitch, maxPitch, panSpeed, zoomSpeed,
                       rotationSpeed, listeners>>

SetTarget(position) ==
    /\ Step("setTarget", NoArg)
    /\ target' = position
    /\ UNCHANGED <<distance, pitch, yaw, keysPressed, mouseDown, lastMouseX,
                   lastMouseY, minZoom, maxZoom, minPitch, maxPitch, panSpeed,
                   zoomSpeed, rotationSpeed, camPos, listeners>>

SetZoom(normalizedZoom) ==
    /\ Step("setZoom", normalizedZoom)
    /\ distance' = SetZoomDistance(normalizedZoom, minZoom, maxZoom)
    /\ UNCHANGED <<target, pitch, yaw, keysPressed, mouseDown, lastMouseX,
                   lastMouseY, minZoom, maxZoom, minPitch, maxPitch, panSpeed,
                   zoomSpeed, rotationSpeed, camPos, listeners>>

SetPitch(degrees) ==
    /\ Step("setPitch", NoArg)
    /\ pitch' = Clamp(minPitch, maxPitch, degrees)
    /\ UNCHANGED <<target, distance, yaw, keysPressed, mouseDown, lastMouseX,
                   lastMouseY, minZoom, maxZoom, minPitch, maxPitch, panSpeed,
                   zoomSpeed, rotationSpeed, camPos, listeners>>

SetYaw(radians) ==
    /\ Step("setYaw", NoArg)
    /\ yaw' = radians
    /\ UNCHANGED <<target, distance, pitch, keysPressed, mouseDown, lastMouseX,
                   lastMouseY, minZoom, maxZoom, minPitch, maxPitch, panSpeed,
                   zoomSpeed, rotationSpeed, camPos, listeners>>

SetConstraints(options) ==
    /\ Step("setConstraints", NoArg)
    /\ minZoom' = Opt(options, "minZoom", minZoom)
    /\ maxZoom' = Opt(options, "maxZoom", maxZoom)
    /\ minPitch' = Opt(options, "minPitch", minPitch)
    /\ maxPitch' = Opt(options, "maxPitch", maxPitch)
    /\ UNCHANGED <<target, distance, pitch, yaw, keysPressed, mouseDown, lastMouseX,
                   lastMouseY, panSpeed, zoomSpeed, rotationSpeed, camPos, listeners>>

SetSpeeds(options) ==
    /\ Step("setSpeeds", NoArg)
    /\ panSpeed' = Opt(options, "panSpeed", panSpeed)
    /\ zoomSpeed' = Opt(options, "zoomSpeed", zoomSpeed)
    /\ rotationSpeed' = Opt(options, "rotationSpeed", rotationSpeed)
    /\ UNCHANGED <<target, distance, pitch, yaw, keysPressed, mouseDown, lastMouseX,
                   lastMouseY, minZoom, maxZoom, minPitch, maxPitch, camPos, listeners>>

\* a reset() that forgets to clear the held keys
ResetKeysKept(keys) == keys

\* the held-key set after reset(): keysPressed.clear()
ResetKeys(keys) == {}

Reset(given, position) ==
    LET t == IF given THEN position ELSE target
    IN  /\ Step("reset", NoArg)
        /\ target' = t
        /\ distance' = 50 * LenScale
        /\ pitch' = 45 * AngScale
        /\ yaw' = 0
        /\ keysPressed' = ResetKeys(keysPressed)
        /\ camPos' = UpdateCameraPosition(t, 50 * LenScale, 45 * AngScale, 0)
        /\ UNCHANGED <<mouseDown, lastMouseX, lastMouseY, minZoom, maxZoom, minPitch,
                       maxPitch, panSpeed, zoomSpeed, rotationSpeed, listeners>>

\* removeEventListener removes only a listener identical to the one added
Dispose ==
    /\ Step("dispose", NoArg)
    /\ listeners' = listeners \ DisposeClosures
    /\ UNCHANGED <<target, distance, pitch, yaw, keysPressed, mouseDown, lastMouseX,
                   lastMouseY, minZoom, maxZoom, minPitch, maxPitch, panSpeed,
                   zoomSpeed, rotationSpeed, camPos>>

----------------------------------------------------------------------------
(* Noise *)

\* noise samples are multiples of 1/NoiseDen
NoiseDen == 10
NoiseVals == {0, 9}
NoiseTables == [0 .. NoisePeriod - 1 -> NoiseVals]

\* perlinNoise: fract(sin(t) * 43758.5453) with t = x * 12.9898 + y * 78.233 + seed
\* is a fixed function of t into [0, 1); noiseTab holds its value per class of t
\* (t's integer part modulo NoisePeriod, with the two factors rounded to 13 and 78)
perlinNoise(x, y, seed) ==
    LET t == FAdd(FAdd(FMul(I(13), x), FMul(I(78), y)), I(seed))
    IN  Frac(noiseTab[FFloor(t) % NoisePeriod], NoiseDen)

\* the loop of improvedPerlinNoise: value and maxValue after `octaves` iterations;
\* amplitude[i], frequency[i], value[i] and maxValue[i] are the locals after i
\* iterations
OctaveSum(x, y, octaves, persistence, lacunarity, seed) ==
    LET amplitude[i \in Nat] ==
            IF i = 0 THEN I(1) ELSE FMul(amplitude[i - 1], persistence)
        frequency[i \in Nat] ==
            IF i = 0 THEN I(1) ELSE FMul(frequency[i - 1], lacunarity)
        value[i \in Nat] ==
            IF i = 0 THEN I(0)
            ELSE FAdd(value[i - 1],
                      FMul(perlinNoise(FMul(x, frequency[i - 1]),
                                       FMul(y, frequency[i - 1]),
                                       seed + (i - 1)),
                           amplitude[i - 1]))
        maxValue[i \in Nat] ==
            IF i = 0 THEN I(0) ELSE FAdd(maxValue[i - 1], amplitude[i - 1])
    IN  [value |-> value[octaves], maxValue |-> maxValue[octaves]]

\* an improvedPerlinNoise that returns the octave sum without dividing it
improvedPerlinNoiseUnnormalized(x, y, octaves, persistence, lacunarity, seed) ==
    OctaveSum(x, y, octaves, persistence, lacunarity, seed).value

improvedPerlinNoise(x, y, octaves, persistence, lacunarity, seed) ==
    LET r == OctaveSum(x, y, octaves, persistence, lacunarity, seed)
    IN  FDiv(r.value, r.maxValue)

----------------------------------------------------------------------------
(* Terrain surface, ray casting and tree placement *)

Configs ==
    { [width |-> 4, height |-> 4, widthSegments |-> 1, heightSegments |-> 1,
       scale |-> 15, maxHeight |-> 15],
      [width |-> 4, height |-> 6, widthSegments |-> 2, heightSegments |-> 1,
       scale |-> 15, maxHeight |-> 0] }

\* the seed createTerrain passes to improvedPerlinNoise
TerrainNoiseSeed == 42

\* the deformed plane: its extents and the elevation of each grid vertex, from the
\* four-octave noise under the given seed
HeightField(cfg, seed) ==
    [width |-> cfg.width,
     height |-> cfg.height,
     elevation |->
        [ix \in 0 .. cfg.widthSegments, iy \in 0 .. cfg.heightSegments |->
            LET x == Frac(2 * ix * cfg.width - cfg.width * cfg.widthSegments,
                          2 * cfg.widthSegments)
                y == Frac(cfg.height * cfg.heightSegments - 2 * iy * cfg.height,
                          2 * cfg.heightSegments)
            IN  FMul(improvedPerlinNoise(FDiv(x, I(cfg.scale)), FDiv(y, I(cfg.scale)),
                                         4, Half, I(2), seed),
                     I(cfg.maxHeight))]]

createTerrain(cfg) == HeightField(cfg, TerrainNoiseSeed)

\* a regenerate(seed) that hands its seed on to the surface's noise
RebuiltTerrainReseeded(cfg, seed) == HeightField(cfg, seed)

\* the surface regenerate(seed) builds: createTerrain(this.config), the seed not
\* passed on
RebuiltTerrain(cfg, seed) == createTerrain(cfg)

\* what intersectObject can report for one ray: nothing, or the elevation of the
\* first intersection point
RayResults == {<<>>, <<I(0)>>, <<I(7)>>}
RayTables == [0 .. RayPeriod - 1 -> RayResults]

\* Raycaster.intersectObject(terrain) for the downward ray through (x, z): a ray
\* outside the plane's extents misses; inside them the ray caster decides
IntersectObject(terr, x, z) ==
    IF /\ ~ FLess(I(terr.width), FMul(I(2), FAbs(x)))
       /\ ~ FLess(I(terr.height), FMul(I(2), FAbs(z)))
    THEN rayTab[(FFloor(x) + FFloor(z)) % RayPeriod]
    ELSE <<>>

\* x += step on Numbers: exact below AbsorbAt, without effect from there on
NumAdd(a, step) == IF FLess(FAbs(a), I(AbsorbAt)) THEN FAdd(a, step) ELSE a

\* noise > 0.6
Accepts(noise) == FLess(<<3, 5>>, noise)

\* a placement that puts the anchor on the hit point itself
AnchorHeightEmbedded(hitY) == hitY

\* intersects[0].point.y + 0.5
AnchorHeight(hitY) == FAdd(hitY, Half)

\* the body of the inner loop of generateTreePositions: positions after the
\* candidate (x, z)
PlaceCandidate(pos, terr, x, z, seed) ==
    LET noise == improvedPerlinNoise(FDiv(x, I(5)), FDiv(z, I(5)), 3, Half, I(2), seed)
        intersects == IntersectObject(terr, x, z)
    IN  IF Accepts(noise) /\ Len(intersects) > 0
        THEN Append(pos, <<x, AnchorHeight(intersects[1]), z>>)
        ELSE pos

\* step = 1 / (density * 10)
ScanStep(density) == FDiv(I(1), FMul(density, I(10)))

\* -gridSize / 2 and gridSize / 2
ScanLow(gridSize) == Frac(0 - gridSize, 2)
ScanHigh(gridSize) == Frac(gridSize, 2)

\* the loops of generateTreePositions, run to completion
RECURSIVE InnerLoop(_, _, _, _, _, _, _)
InnerLoop(pos, terr, gridSize, step, seed, x, z) ==
    IF FLess(z, ScanHigh(gridSize))
    THEN InnerLoop(PlaceCandidate(pos, terr, x, z, seed), terr, gridSize, step, seed,
                   x, NumAdd(z, step))
    ELSE pos

RECURSIVE OuterLoop(_, _, _, _, _, _)
OuterLoop(pos, terr, gridSize, step, seed, x) ==
    IF FLess(x, ScanHigh(gridSize))
    THEN OuterLoop(InnerLoop(pos, terr, gridSize, step, seed, x, ScanLow(gridSize)),
                   terr, gridSize, step, seed, NumAdd(x, step))
    ELSE pos

\* generateTreePositions, when it returns
generateTreePositions(terr, gridSize, density, seed) ==
    OuterLoop(<<>>, terr, gridSize, ScanStep(density), seed, ScanLow(gridSize))

\* generateTreePositions returns only if its loops end: the step must advance x and z
Returns(density) == IsFinite(density) /\ density[1] > 0

\* createTree: the group placed at position
createTree(position) == [position |-> position]

\* treePositions.forEach(position => this.trees.add(createTree(position)))
AddTrees(group, treePositions) ==
    group \o [k \in 1 .. Len(treePositions) |-> createTree(treePositions[k])]

----------------------------------------------------------------------------
(* TerrainGenerator *)

TreeCounts == {0 - 2, 0, 2}
Seeds == {1, 2}
DefaultSeed == 123
DefaultDensity == <<1, 20>>

\* the density generate(treeCount) passes on: treeCount / (width * height) unless
\* treeCount is undefined or 0
GenerateDensity(given, treeCount, cfg) ==
    IF given /\ treeCount # 0
    THEN Frac(treeCount, cfg.width * cfg.height)
    ELSE DefaultDensity

GridSize(cfg) == Min(cfg.width, cfg.height)

\* a regenerate() that keeps the trees of earlier calls
ClearKept(group) == group

\* this.trees.clear()
Clear(group) == <<>>

\* one TerrainGenerator call, counted
Call(op, seed, treePositions) ==
    /\ tOps < MaxCalls
    /\ tOps' = tOps + 1
    /\ tLastOp' = op
    /\ lastSeed' = seed
    /\ lastPositions' = treePositions
    /\ treesBefore' = Len(trees)
    /\ UNCHANGED <<camVars, envVars, scanVars, noiseVars, config>>

Generate(given, treeCount) ==
    LET density == GenerateDensity(given, treeCount, config)
        treePositions == generateTreePositions(terrain, GridSize(config), density,
                                               DefaultSeed)
    IN  /\ Returns(density)
        /\ Call("generate", DefaultSeed, treePositions)
        /\ trees' = AddTrees(trees, treePositions)
        /\ UNCHANGED terrain

Regenerate(seed) ==
    LET surface == RebuiltTerrain(config, seed)
        treePositions == generateTreePositions(surface, GridSize(config),
                                               DefaultDensity, seed)
    IN  /\ Call("regenerate", seed, treePositions)
        /\ terrain' = surface
        /\ trees' = AddTrees(Clear(trees), treePositions)

\* getStats
GetStats ==
    [terrainVertices |-> Cardinality(DOMAIN terrain.elevation),
     treeCount |-> Len(trees),
     terrainSize |-> [width |-> config.width, height |-> config.height]]

----------------------------------------------------------------------------
(* generateTreePositions, statement by statement *)

\* the outer loop's test: x < gridSize / 2
OuterTest ==
    /\ spc = "outerTest"
    /\ IF FLess(sx, ScanHigh(sGrid))
       THEN sz' = ScanLow(sGrid) /\ spc' = "innerTest"
       ELSE sz' = sz /\ spc' = "done"
    /\ UNCHANGED <<sGrid, sStep, sSeed, sx, positions>>
    /\ UNCHANGED <<camVars, envVars, terrainVars, noiseVars>>

\* the inner loop's test: z < gridSize / 2; when it fails, x += step
InnerTest ==
    /\ spc = "innerTest"
    /\ IF FLess(sz, ScanHigh(sGrid))
       THEN sx' = sx /\ spc' = "body"
       ELSE sx' = NumAdd(sx, sStep) /\ spc' = "outerTest"
    /\ UNCHANGED <<sGrid, sStep, sSeed, sz, positions>>
    /\ UNCHANGED <<camVars, envVars, terrainVars, noiseVars>>

\* the inner loop's body, then z += step
Body ==
    /\ spc = "body"
    /\ positions' = PlaceCandidate(positions, terrain, sx, sz, sSeed)
    /\ sz' = NumAdd(sz, sStep)
    /\ spc' = "innerTest"
    /\ UNCHANGED <<sGrid, sStep, sSeed, sx>>
    /\ UNCHANGED <<camVars, envVars, terrainVars, noiseVars>>

----------------------------------------------------------------------------
(* improvedPerlinNoise, one evaluation *)

NoiseCoords == {I(0), <<0 - 7, 5>>}
Persistences == {I(0 - 1), <<0 - 1, 2>>, I(0), Half, I(1), I(2)}
Lacunarities == {I(2), Half, I(0), I(0 - 3)}

NoiseArgs == [x : NoiseCoords, y : NoiseCoords, octaves : 1 .. MaxOctaves,
              persistence : Persistences, lacunarity : Lacunarities, seed : Seeds]

EvalNoise ==
    /\ ~ nDone
    /\ nDone' = TRUE
    /\ nResult' = improvedPerlinNoise(nArgs.x, nArgs.y, nArgs.octaves,
                                      nArgs.persistence, nArgs.lacunarity, nArgs.seed)
    /\ UNCHANGED <<nArgs, camVars, envVars, terrainVars, scanVars>>

----------------------------------------------------------------------------
(* Initial states *)

\* the camera rig as its constructor leaves it
CamConstructed(initialTarget) ==
    /\ target = initialTarget
    /\ panSpeed = 30
    /\ zoomSpeed = 5 * LenScale
    /\ rotationSpeed = 1
    /\ minZoom = 10 * LenScale
    /\ maxZoom = 200 * LenScale
    /\ minPitch = 15 * AngScale
    /\ maxPitch = 85 * AngScale
    /\ distance = 50 * LenScale
    /\ pitch = 45 * AngScale
    /\ yaw = 0
    /\ keysPressed = {}
    /\ mouseDown = FALSE
    /\ lastMouseX = 0
    /\ lastMouseY = 0
    /\ listeners = SetupEventListeners
    /\ camPos = UpdateCameraPosition(initialTarget, 50 * LenScale, 45 * AngScale, 0)
    /\ lastOp = "constructor"
    /\ lastArg = NoArg
    /\ nops = 0
    /\ disposed = FALSE

\* the TerrainGenerator as its constructor leaves it
TerrainConstructed(cfg) ==
    /\ config = cfg
    /\ terrain = createTerrain(cfg)
    /\ trees = <<>>
    /\ tLastOp = "constructor"
    /\ lastPositions = <<>>
    /\ lastSeed = DefaultSeed
    /\ treesBefore = 0
    /\ tOps = 0

\* generateTreePositions entered with (gridSize, density, seed)
ScanEntered(gridSize, density, seed) ==
    /\ sGrid = gridSize
    /\ sStep = ScanStep(density)
    /\ sSeed = seed
    /\ sx = ScanLow(gridSize)
    /\ sz = I(0)
    /\ positions = <<>>
    /\ spc = "outerTest"

\* no run of generateTreePositions under way
ScanIdle ==
    /\ sGrid = 0
    /\ sStep = I(0)
    /\ sSeed = 0
    /\ sx = I(0)
    /\ sz = I(0)
    /\ positions = <<>>
    /\ spc = "idle"

NoiseIdle ==
    /\ nArgs = [x |-> I(0), y |-> I(0), octaves |-> 0, persistence |-> I(0),
                lacunarity |-> I(0), seed |-> 0]
    /\ nResult = I(0)
    /\ nDone = TRUE

EnvFixed ==
    /\ noiseTab = [i \in 0 .. NoisePeriod - 1 |-> 0]
    /\ rayTab = [i \in 0 .. RayPeriod - 1 |-> <<>>]

EnvAny ==
    /\ noiseTab \in NoiseTables
    /\ rayTab \in RayTables

InitCam ==
    /\ \E t \in Targets : CamConstructed(t)
    /\ EnvFixed
    /\ TerrainConstructed(CHOOSE c \in Configs : c.maxHeight = 0)
    /\ ScanIdle
    /\ NoiseIdle

InitTerrain ==
    /\ EnvAny
    /\ \E c \in Configs : TerrainConstructed(c)
    /\ CamConstructed(<<0, 0, 0>>)
    /\ ScanIdle
    /\ NoiseIdle

\* generateTreePositions as generate(treeCount) and regenerate(seed) call it
InitScan ==
    /\ EnvAny
    /\ \E c \in Configs : TerrainConstructed(c)
    /\ \/ \E g \in BOOLEAN, n \in TreeCounts :
              ScanEntered(GridSize(config), GenerateDensity(g, n, config), DefaultSeed)
       \/ \E seed \in Seeds : ScanEntered(GridSize(config), DefaultDensity, seed)
    /\ CamConstructed(<<0, 0, 0>>)
    /\ NoiseIdle

InitNoise ==
    /\ noiseTab \in NoiseTables
    /\ rayTab = [i \in 0 .. RayPeriod - 1 |-> <<>>]
    /\ nArgs \in NoiseArgs
    /\ nResult = I(0)
    /\ nDone = FALSE
    /\ TerrainConstructed(CHOOSE c \in Configs : c.maxHeight = 0)
    /\ CamConstructed(<<0, 0, 0>>)
    /\ ScanIdle

----------------------------------------------------------------------------
(* Next-state relations and specifications *)

NextCam ==
    \/ \E key \in KeyInputs : OnKeyDown(key)
    \/ \E key \in KeyInputs : OnKeyUp(key)
    \/ \E x \in PixelXs, y \in PixelYs : OnMouseDown(x, y)
    \/ \E x \in PixelXs, y \in PixelYs, b \in Buttons, s \in BOOLEAN :
           OnMouseMove(x, y, b, s)
    \/ OnMouseUp
    \/ \E dy \in WheelDeltas : OnMouseWheel(dy)
    \/ Update
    \/ \E p \in Targets : SetTarget(p)
    \/ \E z \in ZoomArgs : SetZoom(z)
    \/ \E deg \in PitchArgs : SetPitch(deg)
    \/ \E rad \in YawArgs : SetYaw(rad)
    \/ \E o \in ConstraintOptions : SetConstraints(o)
    \/ \E o \in SpeedOptions : SetSpeeds(o)
    \/ \E g \in BOOLEAN, p \in Targets : Reset(g, p)
    \/ Dispose

NextTerrain ==
    \/ \E g \in BOOLEAN, n \in TreeCounts : Generate(g, n)
    \/ \E seed \in Seeds : Regenerate(seed)

NextScan ==
    \/ OuterTest
    \/ InnerTest
    \/ Body

NextNoise == EvalNoise

\* the camera rig under any sequence of calls and events
Spec == InitCam /\ [][NextCam]_vars

\* the terrain generator under any sequence of generate() and regenerate() calls
TerrainSpec == InitTerrain /\ [][NextTerrain]_vars

\* one run of generateTreePositions; the single thread keeps executing it
ScanSpec == InitScan /\ [][NextScan]_vars /\ WF_vars(NextScan)

\* one evaluation of improvedPerlinNoise
NoiseSpec == InitNoise /\ [][NextNoise]_vars

----------------------------------------------------------------------------
(* Claims about the camera rig, checked under Spec *)

HandlerOps == {"keydown", "keyup", "mousedown", "mousemove", "mouseup", "wheel"}

\* the step just taken is the delivery of an input event
HandlerStep == nops' = nops + 1 /\ lastOp' \in HandlerOps

\* a normalized zoom within [0, 1]
InUnit(z) == IsFinite(z) /\ 0 <= z[1] /\ z[1] <= z[2]

\* C1 (as claimed): in every reachable state the distance lies within the
\* currently configured zoom range, minZoom <= distance <= maxZoom.
C1_DistanceWithinZoomRange == minZoom <= distance /\ distance <= maxZoom

\* C2 (as claimed): in every reachable state the pitch lies within the currently
\* configured pitch range, minPitch <= pitch <= maxPitch.
C2_PitchWithinPitchRange == minPitch <= pitch /\ pitch <= maxPitch

\* C3 (as claimed): an input event handler changes only the held keys, the last
\* pointer coordinates and the pointer-down flag; target, distance, pitch, yaw and
\* the camera position stay as they are.
C3_HandlersTouchOnlyAccumulators ==
    [][HandlerStep => UNCHANGED <<target, distance, pitch, yaw, camPos>>]_vars

\* C3 (amended): no input event handler moves the camera: its position changes
\* only in update() and reset(). Key and button handlers leave target, distance,
\* pitch and yaw alone; a mouse move may change yaw and pitch, or else target, but
\* never distance; a wheel event changes distance and nothing else of the pose.
C3_HandlersNeverMoveCamera ==
    [][ /\ HandlerStep => camPos' = camPos
        /\ (nops' = nops + 1 /\ camPos' # camPos) => lastOp' \in {"update", "reset"}
        /\ (HandlerStep /\ lastOp' \notin {"mousemove", "wheel"})
               => UNCHANGED <<target, distance, pitch, yaw>>
        /\ (HandlerStep /\ lastOp' = "mousemove")
               => /\ distance' = distance
                  /\ (target' # target => UNCHANGED <<pitch, yaw>>)
        /\ (HandlerStep /\ lastOp' = "wheel") => UNCHANGED <<target, pitch, yaw>>
      ]_vars

\* C3 witness: a wheel event has changed the distance and the camera still sits
\* where the previous pose put it.
C3_Witness ==
    /\ lastOp = "wheel"
    /\ distance # 50 * LenScale
    /\ camPos # UpdateCameraPosition(target, distance, pitch, yaw)

\* C8: after reset(), distance = 50, pitch = 45, yaw = 0 and no key is held,
\* whatever the constraints and the held keys were.
C8_ResetPose ==
    [][(nops' = nops + 1 /\ lastOp' = "reset")
           => /\ distance' = 50 * LenScale
              /\ pitch' = 45 * AngScale
              /\ yaw' = 0
              /\ keysPressed' = {}]_vars

\* C8 witness: reset() has run under a zoom range that excludes 50.
C8_Witness ==
    /\ lastOp = "reset"
    /\ minZoom > 50 * LenScale
    /\ distance = 50 * LenScale
    /\ keysPressed = {}

\* C9 (as claimed): for every z in [0, 1] and every configured zoom range, getZoom()
\* after setZoom(z) returns z, and setZoom(getZoom()) then leaves distance unchanged.
C9_ZoomRoundTrip ==
    (lastOp = "setZoom" /\ InUnit(lastArg))
        => /\ FracEq(GetZoom, lastArg)
           /\ IsFinite(GetZoom)
           /\ SetZoomDistance(GetZoom, minZoom, maxZoom) = distance

\* C9 (amended): the same, for every configured zoom range with minZoom # maxZoom.
C9_ZoomRoundTripNonDegenerate ==
    (lastOp = "setZoom" /\ InUnit(lastArg) /\ minZoom # maxZoom)
        => /\ FracEq(GetZoom, lastArg)
           /\ IsFinite(GetZoom)
           /\ SetZoomDistance(GetZoom, minZoom, maxZoom) = distance

\* C9 witness: setZoom(1/4) has run under an inverted, non-default zoom range.
C9_Witness ==
    /\ lastOp = "setZoom"
    /\ lastArg = <<1, 4>>
    /\ minZoom > maxZoom
    /\ FracEq(GetZoom, <<1, 4>>)

\* distance * (sin yaw * cos pitch, sin pitch, cos yaw * cos pitch), pitch in degrees
SphericalOffset(d, p, y) ==
    <<(((d * Sin(y)) \div TrigScale) * Cos(DegToRad(p))) \div TrigScale,
      (d * Sin(DegToRad(p))) \div TrigScale,
      (((d * Cos(y)) \div TrigScale) * Cos(DegToRad(p))) \div TrigScale>>

\* C12: right after construction, after every update() and after every reset(), the
\* camera's position is target + the spherical offset of the current distance,
\* pitch and yaw.
C12_CameraAtSphericalOffset ==
    lastOp \in {"constructor", "update", "reset"}
        => \A i \in 1 .. 3 :
               camPos[i] = target[i] + SphericalOffset(distance, pitch, yaw)[i]

\* C12 witness: an update() has run with a turned yaw and a distance other than
\* the initial one, and has moved the camera off its initial position.
C12_Witness ==
    /\ lastOp = "update"
    /\ yaw # 0
    /\ distance # 50 * LenScale
    /\ \E i \in 1 .. 3 :
           camPos[i] # target[i] + SphericalOffset(50 * LenScale, 45 * AngScale, 0)[i]

----------------------------------------------------------------------------
(* Claims about the terrain generator, checked under TerrainSpec and ScanSpec *)

\* the number of scan coordinates low, low + step, ... below high, for a step > 0
GridCount(gridSize, step) ==
    LET q == FDiv(I(gridSize), step)
    IN  IF q[1] % q[2] = 0 THEN q[1] \div q[2] ELSE q[1] \div q[2] + 1

\* the k-th scan coordinate, k = 0, 1, ...
GridCoord(gridSize, step, k) == FAdd(Frac(0 - gridSize, 2), FMul(I(k), step))

\* the candidates (x, z) of the scan grid in scan order: x ascending, and z ascending
\* for each x
Candidates(gridSize, step) ==
    LET n == GridCount(gridSize, step)
    IN  [c \in 1 .. n * n |-> <<GridCoord(gridSize, step, (c - 1) \div n),
                                GridCoord(gridSize, step, (c - 1) % n)>>]

\* the density mask of a candidate exceeds 0.6
MaskPasses(c, seed) ==
    LET noise == improvedPerlinNoise(FDiv(c[1], I(5)), FDiv(c[2], I(5)), 3,
                                     <<1, 2>>, I(2), seed)
    IN  IsFinite(noise) /\ 5 * noise[1] > 3 * noise[2]

\* the anchors the placement pass is to return: the candidates in scan order whose
\* mask passes and whose ray hits, each lifted 0.5 above the hit
ExpectedAnchors(terr, gridSize, step, seed) ==
    LET kept == SelectSeq(Candidates(gridSize, step),
                          LAMBDA c : /\ MaskPasses(c, seed)
                                     /\ IntersectObject(terr, c[1], c[2]) # <<>>)
    IN  [k \in 1 .. Len(kept) |->
            <<kept[k][1],
              FAdd(IntersectObject(terr, kept[k][1], kept[k][2])[1], <<1, 2>>),
              kept[k][2]>>]

\* one placed object per anchor, in order
ObjectsAt(anchors) == [k \in 1 .. Len(anchors) |-> [position |-> anchors[k]]]

\* C4 (as claimed): after every generate() the placed-object collection, and
\* getStats().treeCount, hold exactly one object per anchor accepted by that call's
\* placement pass.
C4_OneObjectPerAcceptedAnchor ==
    tLastOp = "generate"
        => /\ trees = ObjectsAt(lastPositions)
           /\ GetStats.treeCount = Len(lastPositions)

\* C5: after regenerate(seed) the placed-object collection holds exactly the objects
\* of the anchors accepted by the placement pass run with that seed over the rebuilt
\* surface; objects of earlier calls are gone.
C5_RegenerateReplacesObjects ==
    tLastOp = "regenerate"
        => /\ trees = ObjectsAt(ExpectedAnchors(terrain, GridSize(config),
                                              ScanStep(DefaultDensity), lastSeed))
           /\ trees = ObjectsAt(lastPositions)

\* C5 witness: a regenerate() that found objects placed by an earlier call and
\* placed a different number of its own.
C5_Witness ==
    /\ tLastOp = "regenerate"
    /\ treesBefore > 0
    /\ Len(trees) > 0
    /\ Len(trees) # treesBefore

\* C6 (as claimed): whatever density reaches it, generateTreePositions terminates.
C6_ScanTerminates == <>(spc = "done")

\* C7: the placement sampler returns exactly the candidates of the scan grid, in scan
\* order, whose mask noise exceeds 0.6 and whose ray hits the surface, each with y =
\* hit elevation + 0.5; a candidate whose ray misses is dropped and changes nothing
\* else.
C7_SamplerReturnsAcceptedInScanOrder ==
    spc = "done" => positions = ExpectedAnchors(terrain, sGrid, sStep, sSeed)

\* C7 witness: a finished pass that returned an anchor above a raised hit and
\* dropped a candidate whose mask passed and whose ray missed.
C7_Witness ==
    /\ spc = "done"
    /\ \E i \in 1 .. Len(positions) : FLess(I(1), positions[i][2])
    /\ \E k \in 1 .. Len(Candidates(sGrid, sStep)) :
           LET c == Candidates(sGrid, sStep)[k]
           IN  MaskPasses(c, sSeed) /\ IntersectObject(terrain, c[1], c[2]) = <<>>

----------------------------------------------------------------------------
(* Claims about the noise field, checked under NoiseSpec *)

\* a Number in [0, 1)
InHalfOpenUnit(r) == IsFinite(r) /\ 0 <= r[1] /\ r[1] < r[2]

\* C10 (as claimed): for every octave count n >= 1 and every persistence and
\* lacunarity, with every sample in [0, 1), the fractal noise lies in [0, 1).
C10_FractalNoiseInUnit ==
    (nDone /\ nArgs.octaves >= 1) => InHalfOpenUnit(nResult)

\* C10 (amended): the same for every persistence within [0, 1].
C10_FractalNoiseInUnitForDecay ==
    (/\ nDone
     /\ nArgs.octaves >= 1
     /\ ~ FLess(nArgs.persistence, I(0))
     /\ ~ FLess(I(1), nArgs.persistence))
        => InHalfOpenUnit(nResult)

\* C10 witness: three octaves with persistence 1/2 and a negative lacunarity gave a
\* value above 1/2.
C10_Witness ==
    /\ nDone
    /\ nArgs.octaves = 3
    /\ nArgs.persistence = <<1, 2>>
    /\ nArgs.lacunarity = I(0 - 3)
    /\ FLess(<<1, 2>>, nResult)
    /\ InHalfOpenUnit(nResult)

====
